---- MODULE Spec2Model ----
(***************************************************************************)
(* Model of testing.py: the hand-gesture classifier (is_roll_gesture,      *)
(* get_hand_gesture, angle_to_direction) and the frame loop of main() with *)
(* its sticky direction and per-key cooldown.                              *)
(*                                                                         *)
(* Units.  Landmark coordinates are integer pixels, as cvzone delivers     *)
(* them.  Clock values are integer ticks of 1/64 s, which binary floats    *)
(* subtract exactly; the cooldown of 0.05 s is 3.2 ticks, so for two clock *)
(* values t and u the test t - u > 0.05 s is t - u > 3 ticks.              *)
(* An angle is held as its half-degree rank: 2*k is                        *)
(* exactly k degrees and 2*k+1 is any angle strictly between k and k+1     *)
(* degrees, which keeps every comparison of an angle with a whole number   *)
(* of degrees exact.                                                       *)
(***************************************************************************)
EXTENDS Integers, Sequences, FiniteSets, TLC

\* ---------- Config (testing.py lines 30-39) ----------
DIRECTION_THRESHOLD == 35

MIN_CONFIDENCE_FRAMES == 1

COOLDOWN_SECONDS == 3

SKIP_FRAMES == 1

STABILITY_THRESHOLD == 15

\* ---------- Bounds of the model ----------
MaxTime == 8

MaxFrames == 6

MaxOffset == 1

\* Python's None, for a gesture-less direction or action.
None == "none"

Actions == {"left", "right", "up", "down"}

\* Half-degree rank of a whole number of degrees.
Deg(d) == 2 * d

\* The three values get_hand_gesture can return.
Roll == [kind |-> "roll", angle |-> 0]

Ambiguous == [kind |-> "none", angle |-> 0]

Angle(a) == [kind |-> "angle", angle |-> a]

\* landmarks[i] of the source (0-based) in a 1-based sequence of <<x, y>>.
Lm(landmarks, i) == landmarks[i + 1]

Sq(n) == n * n

\* The coordinate value float('nan'): arithmetic on it gives NaN again and
\* every comparison with it is false.  All other coordinates are integers.
NaN == -1000000

Greater(a, b) == a # NaN /\ b # NaN /\ a > b

Less(a, b) == a # NaN /\ b # NaN /\ a < b

\* Squared distance of landmark i from the wrist (lines 64-65).
DistSq(landmarks, i) ==
    IF NaN \in {Lm(landmarks, i)[1], Lm(landmarks, i)[2],
                Lm(landmarks, 0)[1], Lm(landmarks, 0)[2]}
    THEN NaN
    ELSE Sq(Lm(landmarks, i)[1] - Lm(landmarks, 0)[1])
       + Sq(Lm(landmarks, i)[2] - Lm(landmarks, 0)[2])

\* (tip, pip) pairs of the four non-thumb fingers (line 57).
finger_pairs == {<<8, 6>>, <<12, 10>>, <<16, 14>>, <<20, 18>>}

\* Number of fingers whose tip is farther from the wrist than the pip.
fingers_extended(landmarks) ==
    Cardinality({p \in finger_pairs :
                   Greater(DistSq(landmarks, p[1]), DistSq(landmarks, p[2]))})

is_roll_gesture(landmarks) == fingers_extended(landmarks) <= 2

\* floor(tan(k degrees) * 10^7) for k = 1..44.
TanE7 ==
  << 174550, 349207, 524077, 699268, 874886, 1051042, 1227845, 1405408,
     1583844, 1763269, 1943803, 2125565, 2308681, 2493280, 2679491, 2867453,
     3057306, 3249196, 3443276, 3639702, 3838640, 4040262, 4244748, 4452286,
     4663076, 4877325, 5095254, 5317094, 5543090, 5773502, 6008606, 6248693,
     6494075, 6745085, 7002075, 7265425, 7535540, 7812856, 8097840, 8390996,
     8692867, 9004040, 9325150, 9656887 >>

\* Rank of atan2(y, x) for 0 <= y <= x, x > 0: an angle in [0, 45] degrees.
AtanOctant(y, x) ==
    IF y = 0 THEN Deg(0)
    ELSE IF y = x THEN Deg(45)
    ELSE 2 * Cardinality({k \in 1..44 : TanE7[k] * x < y * 10000000}) + 1

\* Rank of atan2(y, x) for x >= 0, y >= 0.
AtanQuadrant(y, x) ==
    IF y <= x THEN AtanOctant(y, x) ELSE Deg(90) - AtanOctant(x, y)

\* Rank of atan2(y, x) for y >= 0: an angle in [0, 180] degrees.
AtanUpper(y, x) ==
    IF x >= 0 THEN AtanQuadrant(y, x) ELSE Deg(180) - AtanQuadrant(y, -x)

\* Rank of (math.degrees(math.atan2(y, x)) + 360) % 360  (lines 100-101).
Atan2Deg(y, x) ==
    IF x = 0 /\ y = 0 THEN Deg(0)
    ELSE IF y >= 0 THEN AtanUpper(y, x)
    ELSE Deg(360) - AtanUpper(-y, x)

\* Twice the vector from the wrist to the midpoint of landmarks 8 and 12
\* (lines 83-91); doubled so that the halves of the source stay integers.
Dx2(landmarks) ==
    IF NaN \in {Lm(landmarks, 8)[1], Lm(landmarks, 12)[1], Lm(landmarks, 0)[1]}
    THEN NaN
    ELSE Lm(landmarks, 8)[1] + Lm(landmarks, 12)[1] - 2 * Lm(landmarks, 0)[1]

Dy2(landmarks) ==
    IF NaN \in {Lm(landmarks, 8)[2], Lm(landmarks, 12)[2], Lm(landmarks, 0)[2]}
    THEN NaN
    ELSE Lm(landmarks, 8)[2] + Lm(landmarks, 12)[2] - 2 * Lm(landmarks, 0)[2]

\* Four times distance_sq = dx*dx + dy*dy (line 94).
DistanceSq4(landmarks) ==
    IF Dx2(landmarks) = NaN \/ Dy2(landmarks) = NaN THEN NaN
    ELSE Sq(Dx2(landmarks)) + Sq(Dy2(landmarks))

\* TooClose comparing the squared distance with the unsquared threshold.
TooClose_Unsquared(landmarks) ==
    Less(DistanceSq4(landmarks), 4 * STABILITY_THRESHOLD)

\* distance_sq < STABILITY_THRESHOLD * STABILITY_THRESHOLD  (line 95),
\* both sides multiplied by 4.
TooClose(landmarks) ==
    Less(DistanceSq4(landmarks),
         4 * STABILITY_THRESHOLD * STABILITY_THRESHOLD)

\* Rank of the returned angle (lines 100-101); NaN when dx or dy is.
DirectionAngle(landmarks) ==
    IF Dx2(landmarks) = NaN \/ Dy2(landmarks) = NaN THEN NaN
    ELSE Atan2Deg(-Dy2(landmarks), Dx2(landmarks))

\* get_hand_gesture testing the distance before the fist.
get_hand_gesture_DistanceFirst(landmarks) ==
    IF TooClose(landmarks) THEN Ambiguous
    ELSE IF is_roll_gesture(landmarks) THEN Roll
    ELSE Angle(DirectionAngle(landmarks))

get_hand_gesture(landmarks) ==
    IF is_roll_gesture(landmarks) THEN Roll
    ELSE IF TooClose(landmarks) THEN Ambiguous
    ELSE Angle(DirectionAngle(landmarks))

\* The band tests of angle_to_direction for a half-width of th degrees;
\* a NaN angle passes none of them.
InRightBand(angle, th) ==
    angle # NaN /\ (angle <= Deg(th) \/ angle >= Deg(360 - th))

\* InUpBand without its lower edge.
InUpBand_OpenEdge(angle, th) ==
    angle # NaN /\ Deg(90 - th) < angle /\ angle <= Deg(90 + th)

InUpBand(angle, th) ==
    angle # NaN /\ Deg(90 - th) <= angle /\ angle <= Deg(90 + th)

InLeftBand(angle, th) ==
    angle # NaN /\ Deg(180 - th) <= angle /\ angle <= Deg(180 + th)

\* BandOf with a fourth band around 270 degrees that maps to down.
BandOf_WithDownBand(angle, th) ==
    IF InRightBand(angle, th) THEN "right"
    ELSE IF InUpBand(angle, th) THEN "up"
    ELSE IF InLeftBand(angle, th) THEN "left"
    ELSE IF angle # NaN /\ Deg(270 - th) <= angle /\ angle <= Deg(270 + th)
    THEN "down"
    ELSE None

\* angle_to_direction with the threshold as a parameter.
BandOf(angle, th) ==
    IF InRightBand(angle, th) THEN "right"
    ELSE IF InUpBand(angle, th) THEN "up"
    ELSE IF InLeftBand(angle, th) THEN "left"
    ELSE None

angle_to_direction(angle) == BandOf(angle, DIRECTION_THRESHOLD)

\* The candidate direction of a raw gesture (lines 180-185).
GestureDirection(gesture) ==
    IF gesture.kind = "roll" THEN "down"
    ELSE IF gesture.kind = "angle" THEN angle_to_direction(gesture.angle)
    ELSE None

\* ---------- Landmark inputs ----------
\* A 21-entry landmark list from the wrist w and the pip and tip of the
\* index, middle, ring and pinky fingers; the landmarks the source never
\* reads sit on the wrist.
Hand(w, ip, it, mp, mt, rp, rt, pp, pt) ==
    [i \in 1..21 |->
       CASE i = 7  -> ip  [] i = 9  -> it
         [] i = 11 -> mp  [] i = 13 -> mt
         [] i = 15 -> rp  [] i = 17 -> rt
         [] i = 19 -> pp  [] i = 21 -> pt
         [] OTHER  -> w]

Plus(p, q) == <<p[1] + q[1], p[2] + q[2]>>

\* All 21 landmarks moved by the same offset.
Translate(landmarks, off) ==
    [i \in 1..Len(landmarks) |-> Plus(landmarks[i], off)]

\* The hand of the end-to-end example: wrist (50,50), index tip (90,50),
\* middle tip (90,52), all four fingers extended.
PointRight ==
    Hand(<<50, 50>>, <<70, 50>>, <<90, 50>>, <<70, 51>>, <<90, 52>>,
         <<70, 53>>, <<88, 54>>, <<68, 55>>, <<85, 56>>)

PointUp ==
    Hand(<<80, 100>>, <<78, 70>>, <<78, 40>>, <<82, 70>>, <<82, 40>>,
         <<86, 72>>, <<86, 45>>, <<90, 75>>, <<90, 50>>)

PointLeft ==
    Hand(<<110, 50>>, <<90, 50>>, <<70, 50>>, <<90, 51>>, <<70, 52>>,
         <<90, 53>>, <<72, 54>>, <<92, 55>>, <<75, 56>>)

\* Pointing at the floor: 270 degrees, in no band.
PointDown ==
    Hand(<<80, 20>>, <<78, 50>>, <<78, 80>>, <<82, 50>>, <<82, 80>>,
         <<86, 48>>, <<86, 75>>, <<90, 45>>, <<90, 70>>)

\* Open hand whose index/middle midpoint is within 15 px of the wrist.
FlatHand ==
    Hand(<<50, 50>>, <<52, 50>>, <<58, 50>>, <<52, 51>>, <<58, 52>>,
         <<52, 53>>, <<57, 54>>, <<52, 55>>, <<56, 56>>)

\* Closed hand: every tip nearer the wrist than its pip.
Fist ==
    Hand(<<50, 50>>, <<70, 50>>, <<60, 50>>, <<70, 51>>, <<60, 52>>,
         <<70, 53>>, <<60, 54>>, <<68, 55>>, <<58, 56>>)

SampleHands == {PointRight, PointUp, PointLeft, PointDown, FlatHand, Fist}

\* Landmark sets for the classifier on its own: one wrist, the index and
\* middle fingers over a grid of tips and pips, the ring and pinky fingers
\* either extended or curled.
RelTips ==
    {<<40, 0>>, <<0, -40>>, <<-40, 2>>, <<0, 40>>, <<30, -30>>,
     <<6, 0>>, <<10, -8>>}

RelPips == {<<20, 0>>, <<0, -20>>, <<5, 0>>}

RelOuter == {<< <<15, 5>>, <<30, 10>> >>, << <<15, 5>>, <<8, 3>> >>}

Wrist0 == <<50, 50>>

LandmarkSets ==
    {Hand(Wrist0, Plus(Wrist0, ip), Plus(Wrist0, it),
                  Plus(Wrist0, mp), Plus(Wrist0, mt),
                  Plus(Wrist0, r[1]), Plus(Wrist0, r[2]),
                  Plus(Wrist0, p[1]), Plus(Wrist0, p[2])) :
       <<ip, it, mp, mt, r, p>> \in
         RelPips \X RelTips \X RelPips \X RelTips \X RelOuter \X RelOuter}

Offsets ==
    {<<20 * ox, 20 * oy>> : ox \in -MaxOffset..MaxOffset,
                            oy \in -MaxOffset..MaxOffset}

\* Clock values time.time() can return, in ticks.
Times == 0..MaxTime

\* ---------- The frame loop of main() ----------
VARIABLES
    frame_count,    \* frames read so far
    last_sent,      \* key -> clock value of its last send (0 at start)
    last_gesture,   \* the sticky direction
    hands,          \* whether the detector found a hand in the frame
    landmarks,      \* lmList of that hand
    gesture,        \* what get_hand_gesture returned
    direction,      \* the frame's direction after the stability check
    now,            \* the last clock value read
    action,         \* the action chosen in the frame
    keys,           \* the keys send_key pressed in this iteration
    pressed,        \* every key pressed since the start, in order
    config,         \* the values of the Config block the program runs with
    pc              \* "loop" while main runs, "done" after the loop;
                    \* "call" and "return" around a lone function call

vars == <<frame_count, last_sent, last_gesture, hands, landmarks, gesture,
          direction, now, action, keys, pressed, config, pc>>

\* Stabilize going neutral as soon as the direction is lost.
Stabilize_DropsToNeutral(dir, lg) ==
    IF dir # None
    THEN [direction |-> dir, last_gesture |-> dir]
    ELSE [direction |-> None, last_gesture |-> None]

\* Stabilize keeping a lost direction for one frame only.
Stabilize_ForgetsOnLoss(dir, lg) ==
    IF dir # lg
    THEN IF dir # None
         THEN [direction |-> dir, last_gesture |-> dir]
         ELSE [direction |-> lg, last_gesture |-> None]
    ELSE [direction |-> dir, last_gesture |-> lg]

\* The stability check (lines 188-192): a new valid direction replaces the
\* sticky one, a lost direction is replaced by the sticky one.
Stabilize(dir, lg) ==
    IF dir # lg
    THEN IF dir # None
         THEN [direction |-> dir, last_gesture |-> dir]
         ELSE IF lg # None
              THEN [direction |-> lg, last_gesture |-> lg]
              ELSE [direction |-> dir, last_gesture |-> lg]
    ELSE [direction |-> dir, last_gesture |-> lg]

\* CooldownCheck passing already when exactly the cooldown has elapsed.
CooldownCheck_AtLeast(st, dir, t) ==
    IF dir # None /\ t - st.last_sent[dir] >= COOLDOWN_SECONDS
    THEN [action |-> dir, last_sent |-> [st.last_sent EXCEPT ![dir] = t]]
    ELSE st

\* CooldownCheck with one clock shared by all keys.
CooldownCheck_SharedClock(st, dir, t) ==
    IF dir # None /\ t - st.last_sent[dir] > COOLDOWN_SECONDS
    THEN [action |-> dir, last_sent |-> [a \in Actions |-> t]]
    ELSE st

\* CooldownCheck measuring the gap to the last send in either direction.
CooldownCheck_AbsGap(st, dir, t) ==
    IF dir # None
       /\ (t - st.last_sent[dir] > COOLDOWN_SECONDS
           \/ st.last_sent[dir] - t > COOLDOWN_SECONDS)
    THEN [action |-> dir, last_sent |-> [st.last_sent EXCEPT ![dir] = t]]
    ELSE st

\* CooldownCheck restarting every cooldown when there is no direction.
CooldownCheck_NoneResets(st, dir, t) ==
    IF dir = None
    THEN [st EXCEPT !.last_sent = [a \in Actions |-> t]]
    ELSE IF t - st.last_sent[dir] > COOLDOWN_SECONDS
    THEN [action |-> dir, last_sent |-> [st.last_sent EXCEPT ![dir] = t]]
    ELSE st

\* One cooldown check (lines 212-215, and again 218-221) on the pair
\* st = [action, last_sent] with the clock value t.
CooldownCheck(st, dir, t) ==
    IF dir # None /\ t - st.last_sent[dir] > COOLDOWN_SECONDS
    THEN [action |-> dir, last_sent |-> [st.last_sent EXCEPT ![dir] = t]]
    ELSE st

\* send_key(action) if action (lines 227-228): the keys pressed.
SendKeys(act) == IF act # None THEN <<act>> ELSE <<>>

\* EvaluateFrame pressing the key inside each cooldown check that passes.
EvaluateFrame_SendsPerCheck(ls, dir, t1, t2) ==
    LET c0 == [action |-> None, last_sent |-> ls]
        c1 == CooldownCheck(c0, dir, t1)
        c2 == CooldownCheck([c1 EXCEPT !.action = None], dir, t2)
    IN  [action |-> IF c2.action # None THEN c2.action ELSE c1.action,
         last_sent |-> c2.last_sent,
         keys |-> SendKeys(c1.action) \o SendKeys(c2.action)]

\* EvaluateFrame without the second cooldown check.
EvaluateFrame_FirstCheckOnly(ls, dir, t1, t2) ==
    LET c1 == CooldownCheck([action |-> None, last_sent |-> ls], dir, t1)
    IN  [action |-> c1.action, last_sent |-> c1.last_sent,
         keys |-> SendKeys(c1.action)]

\* Lines 211-228 of one frame: the two cooldown checks with their two
\* clock reads t1 and t2, then the send.
EvaluateFrame(ls, dir, t1, t2) ==
    LET c1 == CooldownCheck([action |-> None, last_sent |-> ls], dir, t1)
        c2 == CooldownCheck(c1, dir, t2)
    IN  [action |-> c2.action, last_sent |-> c2.last_sent,
         keys |-> SendKeys(c2.action)]

\* The Config block as the file sets it (lines 33-39).
DefaultConfig ==
    [direction_threshold |-> DIRECTION_THRESHOLD,
     cooldown_seconds |-> COOLDOWN_SECONDS,
     min_confidence_frames |-> MIN_CONFIDENCE_FRAMES]

\* The locals and outputs of main before the first frame (lines 137-139).
MainInit ==
    /\ frame_count = 0
    /\ last_sent = [a \in Actions |-> 0]
    /\ last_gesture = None
    /\ hands = FALSE
    /\ now = 0
    /\ action = None
    /\ keys = <<>>
    /\ pressed = <<>>

Init ==
    /\ MainInit
    /\ config = DefaultConfig
    /\ landmarks = <<>>
    /\ gesture = Ambiguous
    /\ direction = None
    /\ pc = "loop"

\* Whether the n-th frame is one the loop processes (line 156).
Processed(n) == n % (SKIP_FRAMES + 1) = 0

\* cap.read() can deliver another frame.
CanRead == pc = "loop" /\ frame_count < MaxFrames

\* Lines 153-162: a frame that is counted and skipped.
SkipFrame ==
    /\ CanRead
    /\ ~Processed(frame_count + 1)
    /\ frame_count' = frame_count + 1
    /\ keys' = <<>>
    /\ UNCHANGED <<last_sent, last_gesture, hands, landmarks, gesture,
                   direction, now, action, pressed, config, pc>>

\* Lines 165-170 and 226-228 when findHands returns no hand.
NoHandFrame ==
    /\ CanRead
    /\ Processed(frame_count + 1)
    /\ frame_count' = frame_count + 1
    /\ hands' = FALSE
    /\ action' = None
    /\ keys' = SendKeys(None)
    /\ pressed' = pressed \o SendKeys(None)
    /\ UNCHANGED <<last_sent, last_gesture, landmarks, gesture, direction,
                   now, config, pc>>

\* Lines 186-228 of a frame whose hand lm was classified as g and whose
\* stability check gave s; the clock reads of lines 212 and 218 return any
\* two values t1 and t2.
HandFrameFrom(lm, g, s) ==
    /\ CanRead
    /\ Processed(frame_count + 1)
    /\ frame_count' = frame_count + 1
    /\ hands' = TRUE
    /\ landmarks' = lm
    /\ gesture' = g
    /\ direction' = s.direction
    /\ last_gesture' = s.last_gesture
    /\ \E t1 \in Times, t2 \in Times :
         LET e == EvaluateFrame(last_sent, s.direction, t1, t2)
         IN  /\ now' = t2
             /\ action' = e.action
             /\ last_sent' = e.last_sent
             /\ keys' = e.keys
             /\ pressed' = pressed \o e.keys
    /\ UNCHANGED <<config, pc>>

\* Lines 165-228 when findHands returns a hand with landmarks lm.
HandFrame(lm) ==
    HandFrameFrom(lm, get_hand_gesture(lm),
                  Stabilize(GestureDirection(get_hand_gesture(lm)),
                            last_gesture))

\* cap.read() fails or 'q' is pressed: the loop ends (lines 150-151,
\* 160-161, 234-235).
Quit ==
    /\ pc = "loop"
    /\ pc' = "done"
    /\ keys' = <<>>
    /\ UNCHANGED <<frame_count, last_sent, last_gesture, hands, landmarks,
                   gesture, direction, now, action, pressed, config>>

Next ==
    \/ SkipFrame
    \/ NoHandFrame
    \/ \E lm \in SampleHands : HandFrame(lm)
    \/ Quit

Spec == Init /\ [][Next]_vars

\* ---------- get_hand_gesture on its own ----------
InitGesture ==
    /\ MainInit
    /\ config = DefaultConfig
    /\ landmarks \in LandmarkSets
    /\ gesture = Ambiguous
    /\ direction = None
    /\ pc = "call"

Classify ==
    /\ pc = "call"
    /\ gesture' = get_hand_gesture(landmarks)
    /\ pc' = "return"
    /\ UNCHANGED <<frame_count, last_sent, last_gesture, hands, landmarks,
                   direction, now, action, keys, pressed, config>>

SpecGesture == InitGesture /\ [][Classify]_vars

\* ---------- angle_to_direction on its own ----------
\* Every angle of [0, 360): the whole degrees and the gaps between them.
AngleRanks == 0..(Deg(360) - 1)

InitAngle ==
    /\ MainInit
    /\ config = DefaultConfig
    /\ landmarks = <<>>
    /\ gesture \in {Angle(a) : a \in AngleRanks}
    /\ direction = None
    /\ pc = "call"

MapAngle ==
    /\ pc = "call"
    /\ direction' = angle_to_direction(gesture.angle)
    /\ pc' = "return"
    /\ UNCHANGED <<frame_count, last_sent, last_gesture, hands, landmarks,
                   gesture, now, action, keys, pressed, config>>

SpecAngle == InitAngle /\ [][MapAngle]_vars

\* ---------- Landmark lists outside the classifier's precondition ----------
NaNPoint == <<NaN, NaN>>

\* lmList with 5 entries, and the up-pointing hand with the wrist, or with
\* the index fingertip, at NaN coordinates.
ShortHand == SubSeq(PointUp, 1, 5)

NaNWrist == [PointUp EXCEPT ![1] = NaNPoint]

NaNTip == [PointUp EXCEPT ![9] = NaNPoint]

NaNHands == {NaNWrist, NaNTip}

ShortHands == {ShortHand, <<>>}

\* get_hand_gesture reads landmarks[0] to landmarks[20] (lines 52-61): a
\* shorter list raises IndexError.
ClassifierRaises(lm) == Len(lm) < 21

\* Whether the n-th frame is one whose gesture is drawn (line 195).
DrawnFrame(n) == n % 3 = 0

\* int() of a NaN midpoint raises ValueError (lines 199-202).
DrawMustRaise(lm, g) ==
    /\ g.kind = "angle"
    /\ NaN \in {Lm(lm, 8)[1], Lm(lm, 12)[1], Lm(lm, 8)[2], Lm(lm, 12)[2]}

\* cv2.circle is handed a NaN centre (lines 196-198), which the library may
\* reject with an exception.
DrawMayRaise(lm, g) ==
    /\ g.kind = "roll"
    /\ NaN \in {Lm(lm, 0)[1], Lm(lm, 0)[2]}

\* Lines 172-228 when get_hand_gesture raises: the except clause of line
\* 223 swallows the exception before any local was assigned.
HandFrameClassifierRaising(lm) ==
    /\ CanRead
    /\ Processed(frame_count + 1)
    /\ ClassifierRaises(lm)
    /\ frame_count' = frame_count + 1
    /\ hands' = TRUE
    /\ landmarks' = lm
    /\ action' = None
    /\ keys' = SendKeys(None)
    /\ pressed' = pressed \o SendKeys(None)
    /\ UNCHANGED <<last_sent, last_gesture, gesture, direction, now,
                   config, pc>>

\* Lines 172-228 when the drawing raises: gesture, direction and the sticky
\* direction are assigned (lines 178-192), the cooldown checks are not
\* reached.
HandFrameDrawRaisingFrom(lm, g, s) ==
    /\ CanRead
    /\ Processed(frame_count + 1)
    /\ DrawnFrame(frame_count + 1)
    /\ DrawMustRaise(lm, g) \/ DrawMayRaise(lm, g)
    /\ frame_count' = frame_count + 1
    /\ hands' = TRUE
    /\ landmarks' = lm
    /\ gesture' = g
    /\ direction' = s.direction
    /\ last_gesture' = s.last_gesture
    /\ action' = None
    /\ keys' = SendKeys(None)
    /\ pressed' = pressed \o SendKeys(None)
    /\ UNCHANGED <<last_sent, now, config, pc>>

HandFrameDrawRaising(lm) ==
    HandFrameDrawRaisingFrom(lm, get_hand_gesture(lm),
                             Stabilize(GestureDirection(get_hand_gesture(lm)),
                                       last_gesture))

\* Lines 165-228 for a 21-entry list with NaN coordinates when nothing
\* raises.
HandFrameNaN(lm) ==
    /\ ~(DrawnFrame(frame_count + 1) /\ DrawMustRaise(lm, get_hand_gesture(lm)))
    /\ HandFrame(lm)

NextMalformed ==
    \/ SkipFrame
    \/ NoHandFrame
    \/ \E lm \in SampleHands : HandFrame(lm)
    \/ \E lm \in NaNHands : HandFrameNaN(lm)
    \/ \E lm \in NaNHands : HandFrameDrawRaising(lm)
    \/ \E lm \in ShortHands : HandFrameClassifierRaising(lm)
    \/ Quit

SpecMalformed == Init /\ [][NextMalformed]_vars

\* ---------- The program started with other Config values ----------
\* Values the Config block (lines 33-39) can be edited to: thresholds in
\* degrees, cooldowns in ticks.
Thresholds == {DIRECTION_THRESHOLD, 44, 45, 50}

Cooldowns == {-1, 0, COOLDOWN_SECONDS}

Configs ==
    {[direction_threshold |-> th, cooldown_seconds |-> cd,
      min_confidence_frames |-> MIN_CONFIDENCE_FRAMES] :
       th \in Thresholds, cd \in Cooldowns}

\* The angles a hand of these runs points at, as ranks.
ConfigAngles ==
    {Deg(0), Deg(40), Deg(45), Deg(50), Deg(90), Deg(135), Deg(140),
     Deg(180), Deg(270)}

InitConfig ==
    /\ MainInit
    /\ config \in Configs
    /\ landmarks = <<>>
    /\ gesture \in {Angle(a) : a \in ConfigAngles}
    /\ direction = None
    /\ pc = "start"

\* Module import and the head of main (lines 29-43, 123-147): the Config
\* values are taken as they are, nothing checks them.
Startup ==
    /\ pc = "start"
    /\ pc' = "loop"
    /\ UNCHANGED <<frame_count, last_sent, last_gesture, hands, landmarks,
                   gesture, direction, now, action, keys, pressed, config>>

\* CooldownCheck and EvaluateFrame with the cooldown cd.
CooldownCheckWith(st, dir, t, cd) ==
    IF dir # None /\ t - st.last_sent[dir] > cd
    THEN [action |-> dir, last_sent |-> [st.last_sent EXCEPT ![dir] = t]]
    ELSE st

EvaluateFrameWith(ls, dir, t1, t2, cd) ==
    LET c1 == CooldownCheckWith([action |-> None, last_sent |-> ls],
                                dir, t1, cd)
        c2 == CooldownCheckWith(c1, dir, t2, cd)
    IN  [action |-> c2.action, last_sent |-> c2.last_sent,
         keys |-> SendKeys(c2.action)]

\* Lines 165-228 for a hand that get_hand_gesture gives the angle of this
\* run, under the Config values of this run.
ConfiguredHandFrame ==
    /\ CanRead
    /\ Processed(frame_count + 1)
    /\ frame_count' = frame_count + 1
    /\ hands' = TRUE
    /\ LET s == Stabilize(BandOf(gesture.angle, config.direction_threshold),
                          last_gesture)
       IN  /\ direction' = s.direction
           /\ last_gesture' = s.last_gesture
           /\ \E t1 \in Times, t2 \in Times :
                LET e == EvaluateFrameWith(last_sent, s.direction, t1, t2,
                                           config.cooldown_seconds)
                IN  /\ now' = t2
                    /\ action' = e.action
                    /\ last_sent' = e.last_sent
                    /\ keys' = e.keys
                    /\ pressed' = pressed \o e.keys
    /\ UNCHANGED <<landmarks, gesture, config, pc>>

NextConfig ==
    \/ Startup
    \/ SkipFrame
    \/ ConfiguredHandFrame
    \/ Quit

SpecConfig == InitConfig /\ [][NextConfig]_vars

\* ---------- The frame loop with other MIN_CONFIDENCE_FRAMES ----------
\* Values line 35 can be edited to.
ConfidenceFrames == {MIN_CONFIDENCE_FRAMES, 2}

InitConfidence ==
    /\ MainInit
    /\ config \in {[DefaultConfig EXCEPT !.min_confidence_frames = n] :
                     n \in ConfidenceFrames}
    /\ landmarks = <<>>
    /\ gesture = Ambiguous
    /\ direction = None
    /\ pc = "loop"

\* No line of the loop reads MIN_CONFIDENCE_FRAMES: the steps are those of
\* Next.
SpecConfidence == InitConfidence /\ [][Next]_vars

\* ---------- Properties ----------
\* A step that is a processed frame, and one in which a hand was found.
ProcessedStep == frame_count' = frame_count + 1 /\ Processed(frame_count')

HandStep == ProcessedStep /\ hands'

\* The raw gesture g gives no direction: neither a fist nor an in-band angle.
CandidateNone(g) ==
    \/ g.kind = "none"
    \/ g.kind = "angle" /\ angle_to_direction(g.angle) = None

\* How often key a was pressed so far.
TimesPressed(a) == Cardinality({i \in 1..Len(pressed) : pressed[i] = a})

\* C1: whenever a frame sends key a, the clock value recorded for this send
\* lies more than the cooldown after the one recorded for the previous send
\* of a, so two sends of one key are never a cooldown or less apart.
C1_CooldownSeparates ==
    [][\A a \in Actions :
          (HandStep /\ keys' = <<a>>)
            => last_sent'[a] - last_sent[a] > COOLDOWN_SECONDS]_vars

\* up was sent twice, the second send as soon after the first as allowed.
C1_Witness ==
    /\ TimesPressed("up") = 2
    /\ keys = <<"up">>
    /\ last_sent["up"] = 2 * (COOLDOWN_SECONDS + 1)

\* C2: before any key was sent, the first frame with a direction sends
\* that direction, whatever the clock shows (original claim).
C2_FirstFrameEmits ==
    [][(pressed = <<>> /\ HandStep /\ direction' # None)
          => keys' = <<direction'>>]_vars

\* C3: sending one key leaves the recorded send time of every other key
\* alone, and a frame whose direction d has its own cooldown elapsed sends
\* d however recently another key was sent.
C3_PerActionCooldown ==
    [][HandStep =>
         /\ \A a \in Actions : keys' = <<a>> =>
              \A b \in Actions \ {a} : last_sent'[b] = last_sent[b]
         /\ (direction' # None
               /\ now' - last_sent[direction'] > COOLDOWN_SECONDS)
              => keys' = <<direction'>>]_vars

\* left and right were sent in the first two processed frames, right less
\* than a cooldown after left.
C3_Witness ==
    /\ frame_count = 2 * (SKIP_FRAMES + 1)
    /\ pressed = <<"left", "right">>
    /\ last_sent["right"] - last_sent["left"] \in 0..(COOLDOWN_SECONDS - 1)

\* C4: with left as the sticky direction, a hand frame whose gesture gives
\* no direction, or gives left, has the direction left and leaves the
\* sticky direction left.
C4_StickyNeutral ==
    [][(last_gesture = "left" /\ HandStep
          /\ (CandidateNone(gesture') \/ GestureDirection(gesture') = "left"))
         => (direction' = "left" /\ last_gesture' = "left")]_vars

\* A frame without a direction of its own that was given the sticky left.
C4_Witness ==
    /\ hands
    /\ CandidateNone(gesture)
    /\ direction = "left"
    /\ last_gesture = "left"

\* The outcome of a frame without a hand, and of a frame with the flat
\* (ambiguous) hand and the clock reads t1 and t2, from the current state.
NoHandOutcome ==
    [action |-> None, keys |-> <<>>, last_sent |-> last_sent,
     last_gesture |-> last_gesture]

AmbiguousOutcome(t1, t2) ==
    LET s == Stabilize(GestureDirection(get_hand_gesture(FlatHand)),
                       last_gesture)
        e == EvaluateFrame(last_sent, s.direction, t1, t2)
    IN  [action |-> e.action, keys |-> e.keys, last_sent |-> e.last_sent,
         last_gesture |-> s.last_gesture]

\* C5: from every state and for every clock value, a frame without a hand
\* has the outcome of a frame with an ambiguous hand (original claim).
C5_NoHandLikeAmbiguous ==
    \A t1 \in Times, t2 \in Times : NoHandOutcome = AmbiguousOutcome(t1, t2)

\* C6: a hand frame whose gesture is neither a fist nor an in-band angle
\* sends no key (original claim).
C6_NeutralSendsNothing ==
    [][(HandStep /\ CandidateNone(gesture')) => keys' = <<>>]_vars

\* C7: with the threshold 35, right is exactly the angles up to 35 or from
\* 325 degrees, up exactly 55..125, left exactly 145..215, none the rest;
\* for every threshold below 45 no angle lies in two bands; 0, 90 and 180
\* degrees are right, up and left.
C7_AngleBands ==
    pc = "return" =>
      LET a == gesture.angle
      IN  /\ direction = "right" <=> (a <= 2 * 35 \/ a >= 2 * 325)
          /\ direction = "up" <=> (2 * 55 <= a /\ a <= 2 * 125)
          /\ direction = "left" <=> (2 * 145 <= a /\ a <= 2 * 215)
          /\ direction = None <=>
               \/ (2 * 35 < a /\ a < 2 * 55)
               \/ (2 * 125 < a /\ a < 2 * 145)
               \/ (2 * 215 < a /\ a < 2 * 325)
          /\ \A th \in 0..44 :
               /\ ~(InRightBand(a, th) /\ InUpBand(a, th))
               /\ ~(InUpBand(a, th) /\ InLeftBand(a, th))
               /\ ~(InRightBand(a, th) /\ InLeftBand(a, th))
               /\ a = 2 * 0 => BandOf(a, th) = "right"
               /\ a = 2 * 90 => BandOf(a, th) = "up"
               /\ a = 2 * 180 => BandOf(a, th) = "left"

\* The lower edge of the up band, 55 degrees, mapped to up.
C7_Witness ==
    pc = "return" /\ gesture.angle = 2 * 55 /\ direction = "up"

\* The claims' own reading of the landmarks: squared distance between two
\* landmarks, fingers whose tip is farther from the wrist than the pip, and
\* four times the squared length of the wrist-to-midpoint vector.
PointDistSq(p, q) == (p[1] - q[1]) * (p[1] - q[1]) + (p[2] - q[2]) * (p[2] - q[2])

ExtendedFingers(lm) ==
    {f \in {<<9, 7>>, <<13, 11>>, <<17, 15>>, <<21, 19>>} :
       PointDistSq(lm[f[1]], lm[1]) > PointDistSq(lm[f[2]], lm[1])}

MidpointDistSq4(lm) ==
    PointDistSq(<<lm[9][1] + lm[13][1], lm[9][2] + lm[13][2]>>,
                <<2 * lm[1][1], 2 * lm[1][2]>>)

\* C8: landmarks with at most 2 extended fingers are classified roll, and
\* so are the same landmarks moved by any offset.
C8_FistIsRoll ==
    (pc = "return" /\ Cardinality(ExtendedFingers(landmarks)) <= 2) =>
      /\ gesture = Roll
      /\ \A off \in Offsets :
           get_hand_gesture(Translate(landmarks, off)) = Roll

\* A roll with two extended fingers whose midpoint is far from the wrist.
C8_Witness ==
    /\ pc = "return"
    /\ Cardinality(ExtendedFingers(landmarks)) = 2
    /\ MidpointDistSq4(landmarks) >= 4 * 15 * 15
    /\ gesture = Roll

\* C9: landmarks whose wrist-to-midpoint vector is shorter than 15 are
\* classified ambiguous (original claim).
C9_CloseIsAmbiguous ==
    (pc = "return" /\ MidpointDistSq4(landmarks) < 4 * 15 * 15)
      => gesture = Ambiguous

\* C9 as amended: landmarks with at least 3 extended fingers whose
\* wrist-to-midpoint vector is shorter than 15 are classified ambiguous.
C9_CloseOpenIsAmbiguous ==
    (pc = "return" /\ Cardinality(ExtendedFingers(landmarks)) >= 3
       /\ MidpointDistSq4(landmarks) < 4 * 15 * 15)
      => gesture = Ambiguous

\* An open hand with the midpoint 6 px from the wrist, classified ambiguous.
C9_Witness ==
    /\ pc = "return"
    /\ Cardinality(ExtendedFingers(landmarks)) >= 3
    /\ MidpointDistSq4(landmarks) = 4 * 6 * 6
    /\ gesture = Ambiguous

\* C10: an iteration of the loop presses at most one key, and a pressed key
\* is the frame's action.
C10_OneKeyPerFrame ==
    /\ Len(keys) <= 1
    /\ keys # <<>> => keys = <<action>>

\* A frame whose key was recorded at the latest clock value: both cooldown
\* checks can have passed, and one key was pressed.
C10_Witness ==
    /\ hands
    /\ Len(keys) = 1
    /\ last_sent[keys[1]] = MaxTime
    /\ Len(pressed) = 1

\* C11: the clock value recorded for a key never decreases, whatever the
\* clock reads return.
C11_LastSentMonotonic ==
    [][\A a \in Actions : last_sent'[a] >= last_sent[a]]_vars

\* A frame that read a clock value earlier than the one recorded for its
\* direction, and sent nothing.
C11_Witness ==
    /\ hands
    /\ direction = "up"
    /\ keys = <<>>
    /\ now < last_sent["up"]

\* C12: a hand frame whose direction after the stability check is none
\* sends no key and leaves every recorded send time as it was.
C12_NoneLeavesCooldowns ==
    [][(HandStep /\ direction' = None)
          => (keys' = <<>> /\ action' = None /\ last_sent' = last_sent)]_vars

\* A frame without a direction, read long after any cooldown.
C12_Witness ==
    /\ hands
    /\ direction = None
    /\ keys = <<>>
    /\ now > COOLDOWN_SECONDS

\* C13: down becomes the sticky direction, or is sent, only in a frame that
\* was classified roll or while down already was the sticky direction; so
\* by induction a roll frame precedes every down, and no angle leads to it.
C13_DownOnlyByFist ==
    [][/\ frame_count = 0 => (last_gesture # "down" /\ pressed = <<>>)
       /\ (last_gesture' = "down" \/ keys' = <<"down">>)
            => \/ last_gesture = "down"
               \/ HandStep /\ gesture'.kind = "roll"]_vars

\* The fist frame that makes down the sticky direction and sends it.
C13_Witness ==
    /\ hands
    /\ gesture = Roll
    /\ last_gesture = "down"
    /\ keys = <<"down">>
    /\ pressed = <<"down">>

\* C19: a sticky direction, once set, is never reset to none, and from then
\* on every hand frame has a direction: its own candidate or the sticky one.
C19_StickinessNeverExpires ==
    [][last_gesture # None =>
         /\ last_gesture' # None
         /\ HandStep =>
              /\ direction' # None
              /\ \/ direction' = GestureDirection(gesture')
                 \/ direction' = last_gesture]_vars

\* The third processed frame, without a direction of its own, carrying the
\* sticky direction of an earlier frame.
C19_Witness ==
    /\ frame_count = 3 * (SKIP_FRAMES + 1)
    /\ hands
    /\ CandidateNone(gesture)
    /\ direction = "right"
    /\ last_gesture = "right"
    /\ pressed = <<>>

\* The next frame the loop reads is one it processes.
FrameDue == CanRead /\ Processed(frame_count + 1)

\* What C17 asks of the outcome e of a frame with direction a and the clock
\* reads t1 and t2.
C17_FrameSends(a, t1, t2, e) ==
    IF \/ t1 - last_sent[a] > COOLDOWN_SECONDS
       \/ t2 - last_sent[a] > COOLDOWN_SECONDS
    THEN /\ e.keys = <<a>>
         /\ e.action = a
         /\ e.last_sent[a] \in {t1, t2}
    ELSE e.keys = <<>> /\ e.last_sent = last_sent

\* C17: whenever a frame is due, a frame whose direction a has a clock read more
\* than the cooldown after the recorded send of a sends a and records one of
\* the frame's two clock reads for it; a frame with no such read sends
\* nothing.
C17_ElapsedCooldownSends ==
    FrameDue =>
      \A a \in Actions, t1 \in Times, t2 \in Times :
        C17_FrameSends(a, t1, t2, EvaluateFrame(last_sent, a, t1, t2))

\* up held over two processed frames in a row and sent in both.
C17_Witness ==
    /\ frame_count = 2 * (SKIP_FRAMES + 1)
    /\ hands
    /\ direction = "up"
    /\ pressed = <<"up", "up">>
    /\ keys = <<"up">>

\* One cooldown check at the clock value t in place of the two.
SingleCheck(ls, dir, t) ==
    LET c == CooldownCheck([action |-> None, last_sent |-> ls], dir, t)
    IN  [action |-> c.action, last_sent |-> c.last_sent,
         keys |-> SendKeys(c.action)]

Directions == Actions \cup {None}

\* C18: whenever a frame is due, for every direction and clock reads t1 <= t2, the
\* two checks give what a single check at t1 gives (original claim).
C18_SecondCheckRedundant ==
    FrameDue =>
      \A d \in Directions, t1 \in Times, t2 \in Times :
        t1 <= t2 =>
          EvaluateFrame(last_sent, d, t1, t2) = SingleCheck(last_sent, d, t1)

\* A landmark list that breaks the classifier's precondition: not 21
\* entries, or a NaN coordinate.
Malformed(lm) ==
    \/ Len(lm) # 21
    \/ \E i \in 1..Len(lm) : NaN \in {lm[i][1], lm[i][2]}

\* C14: a frame whose landmark list is malformed is handled like a frame
\* without a hand: it chooses no action, presses no key, leaves the recorded
\* send times and the sticky direction as they were, and the loop goes on
\* (original claim).
C14_MalformedLikeNoHand ==
    [][(HandStep /\ Malformed(landmarks'))
          => /\ action' = None
             /\ keys' = <<>>
             /\ last_sent' = last_sent
             /\ last_gesture' = last_gesture
             /\ pc' = "loop"]_vars

\* Config values outside the bounds the bands and the cooldown need.
InvalidConfig(c) == c.direction_threshold >= 45 \/ c.cooldown_seconds < 0

\* C15: a program whose threshold is 45 degrees or more, or whose cooldown
\* is negative, is rejected at startup: it never enters the frame loop and
\* never reads a frame (original claim).
C15_InvalidConfigRejected ==
    InvalidConfig(config) => (pc \notin {"loop", "done"} /\ frame_count = 0)

\* C16: with min_confidence_frames above 1, a hand frame changes the sticky
\* direction only to a direction that the processed frame before it, a hand
\* frame too, already had as its candidate; with min_confidence_frames = 1
\* a hand frame whose candidate is a new direction adopts it at once
\* (original claim).
C16_AdoptAfterNFrames ==
    [][HandStep =>
         /\ (config.min_confidence_frames > 1 /\ last_gesture' # last_gesture)
              => (hands /\ GestureDirection(gesture) = last_gesture')
         /\ (config.min_confidence_frames = 1
               /\ GestureDirection(gesture') # None)
              => last_gesture' = GestureDirection(gesture')]_vars

====
